---- MODULE Spec2Model ----
\* A model of light-playground's rust_lib: Simulator::new and its pool of two
\* Tracer worker threads (simulator.rs, tracer/tracer.rs), the JobProducer
\* they share behind a mutex (tracer/job.rs), and trace (tracer.rs).
EXTENDS Integers, Sequences, FiniteSets

\* ---------------------------------------------------------------- bounds
\* Saturation value of the per-worker count of consecutive empty take_job calls.
MaxStreak == 3
\* Object ids a Scene may use: 1..MaxObjects.
MaxObjects == 2
\* Largest segments_to_produce handed to trace.
MaxSegments == 3
\* Longest sequence of JobProducer calls the call-sequence harness makes.
MaxCalls == 4

\* ------------------------------------------------------ program constants
\* Simulator::new makes two Tracer::new calls (tracer1, tracer2).
NumTracers == 2
\* sync_channel(1): the stop channel buffers one message.
ChannelCapacity == 1

Tracers == 1..NumTracers

VARIABLES
  simPc,         \* where the simulator thread is inside Simulator::new
  simT,          \* the tracer the simulator thread is creating / stopping
  producer,      \* the Arc<Mutex<JobProducer>> contents, or "uncreated"
  lockHolder,    \* 0: mutex free; t: worker t holds the MutexGuard
  poisoned,      \* the mutex's poison flag
  handle,        \* per tracer: "none", "live" (Tracer value owned), "consumed"
                 \* (stop returned), "dropped" (dropped without stop returning)
  chan,          \* per tracer: the stop channel's buffer
  receiverAlive, \* per tracer: the worker still owns stop_receiver
  sendCount,     \* per tracer: stop messages sent so far
  wpc,           \* per tracer: the worker thread's position in run_tracer
  trace_job,     \* per tracer: run_tracer's local trace_job
  noneStreak,    \* per tracer: consecutive take_job calls that returned None
  takesAfterStop, \* per tracer: take_job calls made since its stop signal was sent
  calls,         \* call-sequence harness: JobProducer calls made so far
  apiProducer,   \* call-sequence harness: the JobProducer under test
  trScene,       \* trace harness: the scene argument
  trBudget,      \* trace harness: the segments_to_produce argument
  trOut          \* trace harness: Some(the TraceJobOutput), None before the call

simVars == <<simPc, simT, producer, lockHolder, poisoned, handle, chan,
             receiverAlive, sendCount, wpc, trace_job, noneStreak,
                 takesAfterStop>>
apiVars == <<calls, apiProducer>>
trVars == <<trScene, trBudget, trOut>>
vars == <<simVars, apiVars, trVars>>

\* ------------------------------------------------------------- data model
\* Option<T>
None == [some |-> FALSE]
Some(v) == [some |-> TRUE, value |-> v]

Shape == {"Circle", "ClosedPolygon"}
\* LightInteraction's variants; the Color / Material payloads are not read by
\* any code of the library.
LightInteraction == {"Emitter", "Collider"}
\* Object without its id, which is the key in Scene.objects.
Object == [shape : Shape, light_interaction : LightInteraction]
\* Scene.objects: HashMap<u64, Object>, objects keyed by id.
SceneOver(ids) == UNION {[d -> Object] : d \in SUBSET ids}
Scene == SceneOver(1..MaxObjects)
EmptyScene == CHOOSE s \in Scene : DOMAIN s = {}
HasEmitter(scene) == \E id \in DOMAIN scene : scene[id].light_interaction = "Emitter"

\* Job { scene, segments_to_produce }
Job(scene, n) == [scene |-> scene, segments_to_produce |-> n]

\* ------------------------------------------------------------ JobProducer
\* JobProducer {} has no fields: its only value is the empty tuple.
JobProducerNew == << >>

\* reset(&mut self, latest_scene) {}: the producer afterwards.
reset(self, latest_scene) == self

take_job_leaky(self) ==
  IF self = JobProducerNew THEN <<None, <<1>> >>
  ELSE <<Some(Job(EmptyScene, 1)), self>>
\* take_job(&mut self) -> Option<Job> { None }: <<result, the producer afterwards>>.
take_job(self) == <<None, self>>

take_job_unwinds(self) == TRUE
\* Whether a take_job call panics: its body is the expression None, which cannot.
take_job_panics(self) == FALSE

\* ------------------------------------------------------------------ trace
trace_overrun(scene, segments_to_produce) ==
  [segments |-> [i \in 1..(segments_to_produce + 1) |-> "segment"]]
\* trace: Vec::with_capacity(segments_to_produce) is an empty Vec; it is returned
\* as TraceJobOutput.segments.
trace(scene, segments_to_produce) == [segments |-> << >>]

\* ----------------------------------------------------------- stop channel
try_recv_disconnect_first(buf, senderAlive) ==
  IF ~senderAlive THEN "Disconnected"
  ELSE IF Len(buf) > 0 THEN "Ok"
  ELSE "Empty"
\* Receiver::try_recv on a sync_channel: a buffered message is delivered even
\* when the sender is gone; Disconnected only when the buffer is empty too.
try_recv(buf, senderAlive) ==
  IF Len(buf) > 0 THEN "Ok"
  ELSE IF ~senderAlive THEN "Disconnected"
  ELSE "Empty"

AfterTryRecvIgnoreOk(r) ==
  CASE r = "Ok" -> "lock"
    [] r = "Disconnected" -> "panicked"
    [] r = "Empty" -> "lock"
AfterTryRecvExitOnEmpty(r) ==
  CASE r = "Ok" -> "stopped"
    [] r = "Disconnected" -> "panicked"
    [] r = "Empty" -> "stopped"
\* run_tracer's match on try_recv: Ok returns, Disconnected panics, Empty goes on.
AfterTryRecv(r) ==
  CASE r = "Ok" -> "stopped"
    [] r = "Disconnected" -> "panicked"
    [] r = "Empty" -> "lock"

GuardKeptAfterTakeJob(t) == t
\* The MutexGuard of `job_producer_mutex.lock().unwrap().take_job()` is a
\* temporary: it is dropped at the end of that statement, freeing the mutex.
GuardAfterTakeJob(t) == 0

Min(a, b) == IF a < b THEN a ELSE b

\* --------------------------------------------------------- initial states
SimInit ==
  /\ simPc = "new_producer"
  /\ simT = 1
  /\ producer = "uncreated"
  /\ lockHolder = 0
  /\ poisoned = FALSE
  /\ handle = [t \in Tracers |-> "none"]
  /\ chan = [t \in Tracers |-> << >>]
  /\ receiverAlive = [t \in Tracers |-> FALSE]
  /\ sendCount = [t \in Tracers |-> 0]
  /\ wpc = [t \in Tracers |-> "unspawned"]
  /\ trace_job = [t \in Tracers |-> None]
  /\ noneStreak = [t \in Tracers |-> 0]
  /\ takesAfterStop = [t \in Tracers |-> 0]

ApiIdle == calls = << >> /\ apiProducer = JobProducerNew
TraceIdle == trScene = EmptyScene /\ trBudget = 0 /\ trOut = None

Init == SimInit /\ ApiIdle /\ TraceIdle

\* ------------------------------------------------- Simulator::new (thread)
\* let tracer_job_producer_mutex = Arc::new(Mutex::new(JobProducer::new()));
SimNewProducer ==
  /\ simPc = "new_producer"
  /\ producer' = JobProducerNew
  /\ simPc' = "new_tracer"
  /\ UNCHANGED <<simT, lockHolder, poisoned, handle, chan, receiverAlive,
                 sendCount, wpc, trace_job, noneStreak,
                 takesAfterStop>>
  /\ UNCHANGED <<apiVars, trVars>>

\* Tracer::new: makes the stop channel, spawns the worker thread on run_tracer
\* and returns the handle that owns stop_sender.
TracerNew ==
  /\ simPc = "new_tracer"
  /\ handle' = [handle EXCEPT ![simT] = "live"]
  /\ chan' = [chan EXCEPT ![simT] = << >>]
  /\ receiverAlive' = [receiverAlive EXCEPT ![simT] = TRUE]
  /\ wpc' = [wpc EXCEPT ![simT] = "poll"]
  /\ IF simT < NumTracers
       THEN simT' = simT + 1 /\ simPc' = "new_tracer"
       ELSE simT' = 1 /\ simPc' = "stop_send"
  /\ UNCHANGED <<producer, lockHolder, poisoned, sendCount, trace_job, noneStreak,
                 takesAfterStop>>
  /\ UNCHANGED <<apiVars, trVars>>

\* Tracer::stop, first half: self.stop_sender.send(true).unwrap(). send blocks
\* while the buffer is full and fails (so unwrap panics) when the receiver is gone.
\* A panic unwinds Simulator::new, dropping every Tracer handle it still owns.
StopSend ==
  /\ simPc = "stop_send"
  /\ IF ~receiverAlive[simT]
       THEN /\ simPc' = "panicked"
            /\ handle' = [t \in Tracers |->
                            IF handle[t] = "live" THEN "dropped" ELSE handle[t]]
            /\ UNCHANGED <<chan, sendCount>>
       ELSE /\ Len(chan[simT]) < ChannelCapacity
            /\ chan' = [chan EXCEPT ![simT] = Append(@, TRUE)]
            /\ sendCount' = [sendCount EXCEPT ![simT] = @ + 1]
            /\ simPc' = "stop_return"
            /\ UNCHANGED handle
  /\ UNCHANGED <<simT, producer, lockHolder, poisoned, receiverAlive, wpc,
                 trace_job, noneStreak,
                 takesAfterStop>>
  /\ UNCHANGED <<apiVars, trVars>>

StopReturnKeepsHandle ==
  /\ simPc = "stop_return"
  /\ simPc' = "stop_send"
  /\ UNCHANGED <<simT, handle, producer, lockHolder, poisoned, chan, receiverAlive,
                 sendCount, wpc, trace_job, noneStreak, takesAfterStop>>
  /\ UNCHANGED <<apiVars, trVars>>
\* Tracer::stop, second half: stop returns, dropping self and with it stop_sender.
StopReturn ==
  /\ simPc = "stop_return"
  /\ handle' = [handle EXCEPT ![simT] = "consumed"]
  /\ IF simT < NumTracers
       THEN simT' = simT + 1 /\ simPc' = "stop_send"
       ELSE simT' = simT /\ simPc' = "return"
  /\ UNCHANGED <<producer, lockHolder, poisoned, chan, receiverAlive, sendCount,
                 wpc, trace_job, noneStreak,
                 takesAfterStop>>
  /\ UNCHANGED <<apiVars, trVars>>

\* Simulator { surface: surface } is returned; the local Arc is dropped.
SimReturn ==
  /\ simPc = "return"
  /\ simPc' = "done"
  /\ UNCHANGED <<simT, producer, lockHolder, poisoned, handle, chan,
                 receiverAlive, sendCount, wpc, trace_job, noneStreak,
                 takesAfterStop>>
  /\ UNCHANGED <<apiVars, trVars>>

\* ------------------------------------------------- run_tracer (per worker)
\* match stop_receiver.try_recv() { Ok => return, Disconnected => panic!, Empty => () }
RunTracerPoll(t) ==
  /\ wpc[t] = "poll"
  /\ LET r == try_recv(chan[t], handle[t] = "live")
         next == AfterTryRecv(r)
     IN /\ chan' = [chan EXCEPT ![t] = IF r = "Ok" THEN Tail(@) ELSE @]
        /\ wpc' = [wpc EXCEPT ![t] = next]
        /\ receiverAlive' = [receiverAlive EXCEPT ![t] = next = "lock"]
  /\ UNCHANGED <<simPc, simT, producer, lockHolder, poisoned, handle, sendCount,
                 trace_job, noneStreak,
                 takesAfterStop>>
  /\ UNCHANGED <<apiVars, trVars>>

\* job_producer_mutex.lock().unwrap(): waits for the mutex; a poisoned mutex
\* makes unwrap panic (the guard inside the error is dropped at once).
RunTracerLock(t) ==
  /\ wpc[t] = "lock"
  /\ lockHolder = 0
  /\ IF poisoned
       THEN /\ wpc' = [wpc EXCEPT ![t] = "panicked"]
            /\ receiverAlive' = [receiverAlive EXCEPT ![t] = FALSE]
            /\ UNCHANGED lockHolder
       ELSE /\ wpc' = [wpc EXCEPT ![t] = "take_job"]
            /\ lockHolder' = t
            /\ UNCHANGED receiverAlive
  /\ UNCHANGED <<simPc, simT, producer, poisoned, handle, chan, sendCount,
                 trace_job, noneStreak,
                 takesAfterStop>>
  /\ UNCHANGED <<apiVars, trVars>>

\* trace_job = <guard>.take_job(); the temporary guard is dropped. A panic inside
\* take_job would unwind through the guard, which poisons the mutex as it drops.
RunTracerTakeJob(t) ==
  /\ wpc[t] = "take_job"
  /\ IF take_job_panics(producer)
       THEN /\ poisoned' = TRUE
            /\ lockHolder' = 0
            /\ wpc' = [wpc EXCEPT ![t] = "panicked"]
            /\ receiverAlive' = [receiverAlive EXCEPT ![t] = FALSE]
            /\ UNCHANGED <<producer, trace_job, noneStreak, takesAfterStop>>
       ELSE /\ LET r == take_job(producer)
               IN /\ trace_job' = [trace_job EXCEPT ![t] = r[1]]
                  /\ producer' = r[2]
                  /\ noneStreak' = [noneStreak EXCEPT ![t] =
                                      IF r[1] = None THEN Min(@ + 1, MaxStreak) ELSE 0]
            /\ takesAfterStop' = [takesAfterStop EXCEPT ![t] =
                                    IF sendCount[t] > 0 THEN Min(@ + 1, MaxStreak) ELSE @]
            /\ lockHolder' = GuardAfterTakeJob(t)
            /\ wpc' = [wpc EXCEPT ![t] = "match"]
            /\ UNCHANGED <<poisoned, receiverAlive>>
  /\ UNCHANGED <<simPc, simT, handle, chan, sendCount>>
  /\ UNCHANGED <<apiVars, trVars>>

RunTracerMatchSkipsPoll(t) ==
  /\ wpc[t] = "match"
  /\ wpc' = [wpc EXCEPT ![t] = "lock"]
  /\ UNCHANGED <<simPc, simT, producer, lockHolder, poisoned, handle, chan,
                 receiverAlive, sendCount, trace_job, noneStreak, takesAfterStop>>
  /\ UNCHANGED <<apiVars, trVars>>
\* match trace_job { None => continue, Some(job) => { /* TODO */ } }: either way
\* the loop goes round to the stop poll.
RunTracerMatch(t) ==
  /\ wpc[t] = "match"
  /\ wpc' = [wpc EXCEPT ![t] = "poll"]
  /\ UNCHANGED <<simPc, simT, producer, lockHolder, poisoned, handle, chan,
                 receiverAlive, sendCount, trace_job, noneStreak,
                 takesAfterStop>>
  /\ UNCHANGED <<apiVars, trVars>>

SimStep == SimNewProducer \/ TracerNew \/ StopSend \/ StopReturn \/ SimReturn
WorkerStep(t) ==
  RunTracerPoll(t) \/ RunTracerLock(t) \/ RunTracerTakeJob(t) \/ RunTracerMatch(t)

Next ==
  \/ SimNewProducer
  \/ TracerNew
  \/ StopSend
  \/ StopReturn
  \/ SimReturn
  \/ \E t \in Tracers : RunTracerPoll(t)
  \/ \E t \in Tracers : RunTracerLock(t)
  \/ \E t \in Tracers : RunTracerTakeJob(t)
  \/ \E t \in Tracers : RunTracerMatch(t)

Spec == Init /\ [][Next]_vars

\* The operating system schedules every thread that can run.
LiveSpec ==
  /\ Init
  /\ [][Next]_vars
  /\ WF_vars(SimStep)
  /\ \A t \in Tracers : WF_vars(WorkerStep(t))

\* ------------------------------------------- JobProducer call sequences
\* Every method of JobProducer takes &mut self, so its calls are serialised (by
\* the mutex when they come from several threads): any interleaving of callers
\* is one sequence of calls. The harness makes every sequence of at most MaxCalls
\* calls on a fresh JobProducer and records each call with its result.
ResetScene == SceneOver({1})

ApiInit == SimInit /\ ApiIdle /\ TraceIdle

ApiReset(scene) ==
  /\ Len(calls) < MaxCalls
  /\ apiProducer' = reset(apiProducer, scene)
  /\ calls' = Append(calls, [op |-> "reset", scene |-> Some(scene), result |-> None])
  /\ UNCHANGED <<simVars, trVars>>

ApiTakeJob ==
  /\ Len(calls) < MaxCalls
  /\ LET r == take_job(apiProducer)
     IN /\ apiProducer' = r[2]
        /\ calls' = Append(calls, [op |-> "take_job", scene |-> None, result |-> r[1]])
  /\ UNCHANGED <<simVars, trVars>>

ApiNext ==
  \/ \E scene \in ResetScene : ApiReset(scene)
  \/ ApiTakeJob

ProducerSpec == ApiInit /\ [][ApiNext]_vars

\* No reset among calls i..j.
NoResetIn(i, j) == \A k \in i..j : calls[k].op # "reset"

\* ------------------------------------------------------ trace on any input
TraceInit ==
  /\ SimInit
  /\ ApiIdle
  /\ trScene \in Scene
  /\ trBudget \in 0..MaxSegments
  /\ trOut = None

TraceCall ==
  /\ trOut = None
  /\ trOut' = Some(trace(trScene, trBudget))
  /\ UNCHANGED <<simVars, apiVars, trScene, trBudget>>

TraceNext == TraceCall

TraceSpec == TraceInit /\ [][TraceNext]_vars

\* ================================================================ claims
Running(t) == wpc[t] \in {"poll", "lock", "take_job", "match"}
Exited(t) == wpc[t] \in {"stopped", "panicked"}

\* C1: Tracer::stop() returns only after that tracer's worker thread has exited:
\* in no reachable state has stop() returned while the worker is still in its loop.
C1_StopReturnsAfterWorkerExit ==
  \A t \in Tracers : handle[t] = "consumed" => Exited(t)

\* C2: when Simulator::new returns, the shared JobProducer exists and the
\* Simulator owns 2 tracers whose workers are running and have not been sent a
\* stop signal.
C2_NewReturnsRunningPool ==
  simPc = "done" =>
    /\ producer = JobProducerNew
    /\ \A t \in Tracers : handle[t] = "live" /\ Running(t) /\ sendCount[t] = 0

NoPanic == simPc # "panicked" /\ \A t \in Tracers : wpc[t] # "panicked"
AllStopped == \A t \in Tracers : wpc[t] = "stopped"

\* C3: shutdown of the Simulator's 2 tracers is clean: in every interleaving no
\* thread ever panics (the simulator thread in stop's send().unwrap(), a worker
\* in lock().unwrap() or in the Disconnected branch), and every spawned worker
\* eventually returns from run_tracer.
C3_CleanShutdown == [](NoPanic) /\ <>[](AllStopped)
C3_Witness == simPc = "done" /\ AllStopped /\ \A t \in Tracers : sendCount[t] = 1

\* C4: between two consecutive resets (or before the first, or after the last), no
\* take_job returns Some after a take_job has returned None.
C4_NoneUntilReset ==
  \A i \in 1..Len(calls) : \A j \in (i + 1)..Len(calls) :
    (/\ calls[i].op = "take_job"
     /\ calls[j].op = "take_job"
     /\ NoResetIn(i, j)
     /\ calls[i].result = None) => calls[j].result = None
C4_Witness ==
  \E h \in 1..Len(calls) : \E i \in (h + 1)..Len(calls) : \E j \in (i + 1)..Len(calls) :
    /\ calls[h].op = "reset"
    /\ NoResetIn(h + 1, j)
    /\ calls[i].result = None
    /\ calls[j].result = None

\* C5: after reset(scene) the next take_job hands out a job (Some) built from that
\* scene: the budget was refilled, so None comes only after jobs have been handed out.
C5_ResetRefills ==
  \A i \in 1..(Len(calls) - 1) :
    (calls[i].op = "reset" /\ calls[i + 1].op = "take_job") =>
      /\ calls[i + 1].result.some
      /\ calls[i + 1].result.value.scene = calls[i].scene.value

\* C7: a worker whose take_job returned None does not call take_job again until it
\* is woken: it never makes two consecutive take_job calls that return None.
C7_NoBusySpin == \A t \in Tracers : noneStreak[t] <= 1

\* C8: trace(scene, k) returns at most k LightSegments, and none when the scene
\* holds no Emitter object.
C8_TraceBounded ==
  trOut # None =>
    /\ Len(trOut.value.segments) <= trBudget
    /\ (~HasEmitter(trScene) => Len(trOut.value.segments) = 0)
C8_Witness ==
  /\ trOut # None
  /\ trBudget > 0
  /\ trScene # EmptyScene
  /\ ~HasEmitter(trScene)

\* C10: a worker holds the JobProducer mutex only during the take_job call: while
\* it polls its stop channel or handles the job it took, it does not hold the lock.
C10_LockOnlyDuringTakeJob ==
  \A t \in Tracers :
    /\ wpc[t] \in {"poll", "match", "stopped", "panicked"} => lockHolder # t
    /\ lockHolder = t => wpc[t] = "take_job"
C10_Witness ==
  \E t \in Tracers : \E u \in Tracers \ {t} :
    /\ wpc[t] = "match"
    /\ noneStreak[t] > 0
    /\ lockHolder = u

\* C11: stop is observed only at the poll at the top of the worker loop: a worker
\* leaves run_tracer only from that poll (so a job it took is handled first), and
\* once its stop signal has been sent it makes at most one further take_job call,
\* the signal staying buffered for its next poll.
C11_StopPolledOnce ==
  /\ [](\A t \in Tracers :
          /\ takesAfterStop[t] <= 1
          /\ (sendCount[t] > 0 /\ wpc[t] = "poll") => Len(chan[t]) > 0)
  /\ [][\A t \in Tracers :
          (wpc[t] # "stopped" /\ wpc'[t] = "stopped") => wpc[t] = "poll"]_vars
C11_Witness ==
  \E t \in Tracers :
    /\ wpc[t] = "stopped"
    /\ takesAfterStop[t] = 1

\* A worker's place in the Tracer lifecycle, from its thread's position and
\* whether its stop signal has been sent.
LifeOf(pc, sent) ==
  CASE pc = "unspawned" -> "Created"
    [] pc \in {"poll", "lock", "take_job", "match"} ->
         IF sent = 0 THEN "Running" ELSE "StopRequested"
    [] pc = "stopped" -> "Stopped"
    [] pc = "panicked" -> "Panicked"
LifeSteps ==
  {<<"Created", "Running">>, <<"Running", "StopRequested">>,
   <<"StopRequested", "Stopped">>}

\* C12: each Tracer's worker goes Created -> Running -> StopRequested -> Stopped
\* and makes no other transition: the worker runs from the moment Tracer::new
\* hands out the handle, Stopped is terminal (the thread is never again at a
\* lock, take_job or match position), and Stopped is entered only from
\* StopRequested.
C12_Lifecycle ==
  /\ [](\A t \in Tracers :
          /\ (handle[t] = "none") <=> (wpc[t] = "unspawned")
          /\ LifeOf(wpc[t], sendCount[t]) # "Panicked")
  /\ [][\A t \in Tracers :
          \/ LifeOf(wpc'[t], sendCount'[t]) = LifeOf(wpc[t], sendCount[t])
          \/ <<LifeOf(wpc[t], sendCount[t]), LifeOf(wpc'[t], sendCount'[t])>>
               \in LifeSteps]_vars
C12_Witness ==
  \E t \in Tracers : \E u \in Tracers \ {t} :
    /\ LifeOf(wpc[t], sendCount[t]) = "Stopped"
    /\ LifeOf(wpc[u], sendCount[u]) = "StopRequested"

\* C13: no thread panics while it holds the JobProducer mutex, so the mutex is
\* never poisoned and every lock().unwrap() a worker makes hands it the guard,
\* also while other tracers are being stopped.
C13_NeverPoisoned ==
  /\ [](~poisoned)
  /\ [][\A t \in Tracers :
          (wpc[t] = "lock" /\ wpc'[t] # "lock") =>
            (wpc'[t] = "take_job" /\ lockHolder' = t)]_vars
C13_Witness ==
  \E t \in Tracers : \E u \in Tracers \ {t} :
    /\ lockHolder = t
    /\ noneStreak[t] > 0
    /\ sendCount[u] = 1
    /\ wpc[u] = "stopped"

\* C14: at most one stop signal is ever sent per Tracer, so a stop channel never
\* holds more than one message and is empty whenever stop() is about to send:
\* the send finds room and completes without waiting for the worker.
C14_OneStopSignal ==
  /\ \A t \in Tracers : sendCount[t] <= 1 /\ Len(chan[t]) <= 1
  /\ simPc = "stop_send" =>
       /\ sendCount[simT] = 0
       /\ Len(chan[simT]) = 0
       /\ Len(chan[simT]) < ChannelCapacity
C14_Witness ==
  /\ simPc = "stop_return"
  /\ sendCount[simT] = 1
  /\ Len(chan[simT]) = 1
  /\ Running(simT)

\* ------------------------------------------------ any owner of the Tracers
\* Tracer is a public type: its owner either calls stop(self) or lets the value
\* drop, which drops stop_sender with nothing sent. This specification is
\* Simulator::new with that choice open for each tracer.
DropHandle ==
  /\ simPc = "stop_send"
  /\ handle[simT] = "live"
  /\ handle' = [handle EXCEPT ![simT] = "dropped"]
  /\ IF simT < NumTracers
       THEN simT' = simT + 1 /\ simPc' = "stop_send"
       ELSE simT' = simT /\ simPc' = "return"
  /\ UNCHANGED <<producer, lockHolder, poisoned, chan, receiverAlive, sendCount,
                 wpc, trace_job, noneStreak, takesAfterStop>>
  /\ UNCHANGED <<apiVars, trVars>>

OwnerNext ==
  \/ SimNewProducer
  \/ TracerNew
  \/ StopSend
  \/ StopReturn
  \/ DropHandle
  \/ SimReturn
  \/ \E t \in Tracers : RunTracerPoll(t)
  \/ \E t \in Tracers : RunTracerLock(t)
  \/ \E t \in Tracers : RunTracerTakeJob(t)
  \/ \E t \in Tracers : RunTracerMatch(t)

OwnerSpec ==
  /\ Init
  /\ [][OwnerNext]_vars
  /\ WF_vars(SimStep \/ DropHandle)
  /\ \A t \in Tracers : WF_vars(WorkerStep(t))

\* C15: a worker reaches the Disconnected panic exactly when its Tracer handle
\* was dropped without stop(): a panicked worker's handle was dropped with nothing
\* sent, a handle dropped that way leads its worker to the panic, and once stop()
\* has sent and dropped the handle the worker's next try_recv yields the buffered
\* message, so that worker never panics.
C15_DisconnectedIffDropped ==
  /\ [](\A t \in Tracers :
          /\ wpc[t] = "panicked" => (handle[t] = "dropped" /\ sendCount[t] = 0)
          /\ (handle[t] = "consumed" /\ wpc[t] = "poll") =>
               try_recv(chan[t], FALSE) = "Ok")
  /\ \A t \in Tracers : (handle[t] = "dropped") ~> (wpc[t] = "panicked")
C15_Witness ==
  \E t \in Tracers : \E u \in Tracers \ {t} :
    /\ wpc[t] = "panicked"
    /\ handle[t] = "dropped"
    /\ wpc[u] = "stopped"
    /\ handle[u] = "consumed"

====
